---- MODULE Spec2Model ----
(***************************************************************************)
(* A model of LittleLemonAPI/serializers.py: the cart consolidation of     *)
(* CartItemSerializer.create, the tax computation and the dish-name        *)
(* validation of the menu item serializers, the rating serializer's field  *)
(* and uniqueness validation, the two role-scoped order update             *)
(* serializers and the read-only order view.                               *)
(*                                                                         *)
(* Money is a Decimal: a record [coef, exp] standing for coef * 10^(-exp). *)
(* Stored prices have two fractional digits and are kept as integer cents. *)
(***************************************************************************)
EXTENDS Integers, Sequences, FiniteSets, TLC

VARIABLES
    \* ---- cart (CartItem table, MenuItem.price, request handlers) ----
    cartItems,      \* the CartItem rows: [id, user, menu_item, quantity, unit_price]
    nextCartId,     \* the next primary key of the CartItem table
    menuPrice,      \* MenuItem.price in cents, per menu item
    requested,      \* history: sum of the quantities requested per (user, menu_item)
    firstPrice,     \* history: menu price at the first add per (user, menu_item), 0 if none
    numAdds,        \* history: number of create calls started
    staleMerge,     \* history: per pair, whether an add merged into a row while the
                    \* menu price differed from the row's unit_price
    pc,             \* per concurrent request: "ready", "fetched", "done"
    args,           \* per concurrent request: [user, menu_item, quantity]
    obj,            \* per concurrent request: the in-memory CartItem instance
    baseQuantity,   \* history: stored quantity per pair before the concurrent requests
    \* ---- price_after_tax ----
    taxPrice,       \* obj.price of the last serialized menu item (cents), 0 if none
    taxResult,      \* the value get_price_after_tax returned for it (cents)
    \* ---- dish-name validation ----
    menuItems,      \* the MenuItem rows: [id, name]
    lastValidation, \* the last validate_dish call: [called, instance, value, ok, before]
    \* ---- ratings ----
    ratings,        \* the Rating rows: [id, user, menu_item, score]
    nextRatingId,
    lastRating,     \* the last submission: [called, caller, user, menu_item, score, ok, before]
    \* ---- orders ----
    order,          \* one Order: [status, delivery_crew, total, items]
    lastUpdate,     \* the last update request: [called, role, data, ok, before]
    lastView        \* the last view built by OrderReadSerializer

cartVars == <<cartItems, nextCartId, menuPrice, requested, firstPrice, numAdds,
              staleMerge, pc, args, obj, baseQuantity>>
taxVars == <<taxPrice, taxResult>>
menuVars == <<menuItems, lastValidation>>
ratingVars == <<ratings, nextRatingId, lastRating>>
orderVars == <<order, lastUpdate, lastView>>
vars == <<cartVars, taxVars, menuVars, ratingVars, orderVars>>

(***************************************************************************)
(* Bounds and the small universes the inputs are drawn from.               *)
(***************************************************************************)
Users == {"alice", "bob"}
MenuItemIds == {1, 2}
MenuPrices == {200, 350}
Pairs == Users \X MenuItemIds

MaxQuantity == 3
MaxAdds == 3
NumRequests == 2
MaxBaseQuantity == 2

Quantities == 1..MaxQuantity
Requests == 1..NumRequests

(***************************************************************************)
(* Cart: CartItemSerializer.create                                         *)
(***************************************************************************)
NoRow == [id |-> 0, user |-> "", menu_item |-> 0, quantity |-> 0, unit_price |-> 0]

\* validated_data.get('quantity', 1): hasQ says whether the request carried a quantity.
RequestedQuantity(hasQ, q) == IF hasQ THEN q ELSE 1

Matching(rows, u, m) == {r \in rows : r.user = u /\ r.menu_item = m}

\* A get_or_create that never finds the existing row.
GetOrCreateAlwaysCreates(rows, nid, u, m, quantity, price) ==
    LET new == [id |-> nid, user |-> u, menu_item |-> m,
                quantity |-> quantity, unit_price |-> price]
    IN [rows |-> rows \cup {new}, obj |-> new, created |-> TRUE, raised |-> FALSE]

\* A get_or_create whose found instance takes the defaults' unit_price.
GetOrCreateRefreshesPrice(rows, nid, u, m, quantity, price) ==
    LET found == Matching(rows, u, m)
        new == [id |-> nid, user |-> u, menu_item |-> m,
                quantity |-> quantity, unit_price |-> price]
    IN  IF found = {}
        THEN [rows |-> rows \cup {new}, obj |-> new, created |-> TRUE, raised |-> FALSE]
        ELSE [rows |-> rows,
              obj |-> [(CHOOSE r \in found : TRUE) EXCEPT !.unit_price = price],
              created |-> FALSE, raised |-> FALSE]

\* CartItem.objects.get_or_create(user=, menu_item=, defaults={quantity, unit_price}),
\* taken as one atomic step of the store. get() raises when several rows match.
GetOrCreate(rows, nid, u, m, quantity, price) ==
    LET found == Matching(rows, u, m)
        new == [id |-> nid, user |-> u, menu_item |-> m,
                quantity |-> quantity, unit_price |-> price]
    IN  IF found = {}
        THEN [rows |-> rows \cup {new}, obj |-> new, created |-> TRUE, raised |-> FALSE]
        ELSE IF Cardinality(found) > 1
        THEN [rows |-> rows, obj |-> NoRow, created |-> FALSE, raised |-> TRUE]
        ELSE [rows |-> rows, obj |-> CHOOSE r \in found : TRUE,
              created |-> FALSE, raised |-> FALSE]

\* obj.quantity += quantity, on the in-memory instance.
Increment(o, quantity) == [o EXCEPT !.quantity = @ + quantity]

\* obj.save(): every field of the in-memory instance overwrites the row of its pk.
Save(rows, o) == {r \in rows : r.id # o.id} \cup {o}

\* The whole handler, one request at a time.
CartCreate(u, m, hasQ, q) ==
    LET quantity == RequestedQuantity(hasQ, q)
        res == GetOrCreate(cartItems, nextCartId, u, m, quantity, menuPrice[m])
    IN  /\ numAdds < MaxAdds
        /\ numAdds' = numAdds + 1
        /\ ~res.raised
        /\ cartItems' = IF res.created THEN res.rows
                        ELSE Save(res.rows, Increment(res.obj, quantity))
        /\ nextCartId' = IF res.created THEN nextCartId + 1 ELSE nextCartId
        /\ requested' = [requested EXCEPT ![<<u, m>>] = @ + quantity]
        /\ firstPrice' = IF requested[<<u, m>>] = 0
                         THEN [firstPrice EXCEPT ![<<u, m>>] = menuPrice[m]]
                         ELSE firstPrice
        /\ staleMerge' = [staleMerge EXCEPT ![<<u, m>>] =
                              @ \/ (~res.created /\ res.obj.unit_price # menuPrice[m])]
        /\ UNCHANGED <<menuPrice, pc, args, obj, baseQuantity>>
        /\ UNCHANGED <<taxVars, menuVars, ratingVars, orderVars>>

\* A manager edits a menu item's price (MenuItemSerializer.price, a writable field).
SetMenuPrice(m, p) ==
    /\ menuPrice[m] # p
    /\ menuPrice' = [menuPrice EXCEPT ![m] = p]
    /\ UNCHANGED <<cartItems, nextCartId, requested, firstPrice, numAdds, staleMerge,
                   pc, args, obj, baseQuantity>>
    /\ UNCHANGED <<taxVars, menuVars, ratingVars, orderVars>>

\* ---- the same handler as steps of concurrent requests ----

\* Lines 102-109: read the request and get_or_create (atomic in the store).
FetchStep(p, u, m, hasQ, q) ==
    LET quantity == RequestedQuantity(hasQ, q)
        res == GetOrCreate(cartItems, nextCartId, u, m, quantity, menuPrice[m])
    IN  /\ pc[p] = "ready"
        /\ ~res.raised
        /\ cartItems' = res.rows
        /\ nextCartId' = IF res.created THEN nextCartId + 1 ELSE nextCartId
        /\ args' = [args EXCEPT ![p] = [user |-> u, menu_item |-> m, quantity |-> quantity]]
        /\ obj' = [obj EXCEPT ![p] = res.obj]
        /\ pc' = [pc EXCEPT ![p] = IF res.created THEN "done" ELSE "fetched"]
        /\ requested' = [requested EXCEPT ![<<u, m>>] = @ + quantity]
        /\ UNCHANGED <<menuPrice, firstPrice, numAdds, staleMerge, baseQuantity>>
        /\ UNCHANGED <<taxVars, menuVars, ratingVars, orderVars>>

\* Lines 110-113: not created, so increment the instance read earlier and save it.
SaveStep(p) ==
    /\ pc[p] = "fetched"
    /\ cartItems' = Save(cartItems, Increment(obj[p], args[p].quantity))
    /\ obj' = [obj EXCEPT ![p] = Increment(obj[p], args[p].quantity)]
    /\ pc' = [pc EXCEPT ![p] = "done"]
    /\ UNCHANGED <<nextCartId, menuPrice, requested, firstPrice, numAdds, staleMerge,
                   args, baseQuantity>>
    /\ UNCHANGED <<taxVars, menuVars, ratingVars, orderVars>>

NoArgs == [user |-> "", menu_item |-> 0, quantity |-> 0]

CartInit ==
    /\ cartItems = {}
    /\ nextCartId = 1
    /\ menuPrice \in [MenuItemIds -> MenuPrices]
    /\ requested = [pr \in Pairs |-> 0]
    /\ firstPrice = [pr \in Pairs |-> 0]
    /\ numAdds = 0
    /\ staleMerge = [pr \in Pairs |-> FALSE]
    /\ pc = [p \in Requests |-> "ready"]
    /\ args = [p \in Requests |-> NoArgs]
    /\ obj = [p \in Requests |-> NoRow]
    /\ baseQuantity = [pr \in Pairs |-> 0]

\* The carts earlier, completed requests can have left: for user alice, each
\* menu item either absent or one row with some quantity.
BaseCarts ==
    {b \in [Pairs -> 0..MaxBaseQuantity] : \A pr \in Pairs : pr[1] # "alice" => b[pr] = 0}

RowsOf(b, price) ==
    {[id |-> pr[2], user |-> pr[1], menu_item |-> pr[2],
      quantity |-> b[pr], unit_price |-> price[pr[2]]] : pr \in {x \in Pairs : b[x] > 0}}

CartConcInit ==
    /\ menuPrice \in [MenuItemIds -> MenuPrices]
    /\ baseQuantity \in BaseCarts
    /\ cartItems = RowsOf(baseQuantity, menuPrice)
    /\ nextCartId = 3
    /\ requested = [pr \in Pairs |-> 0]
    /\ firstPrice = [pr \in Pairs |-> IF baseQuantity[pr] > 0 THEN menuPrice[pr[2]] ELSE 0]
    /\ numAdds = 0
    /\ staleMerge = [pr \in Pairs |-> FALSE]
    /\ pc = [p \in Requests |-> "ready"]
    /\ args = [p \in Requests |-> NoArgs]
    /\ obj = [p \in Requests |-> NoRow]

(***************************************************************************)
(* Tax: MenuItemSerializer.get_price_after_tax, in Decimal arithmetic.     *)
(***************************************************************************)
MinPriceCents == 200
MaxPriceCents == 1000
PriceInputs == MinPriceCents..MaxPriceCents

RECURSIVE Pow10(_)
Pow10(n) == IF n = 0 THEN 1 ELSE 10 * Pow10(n - 1)

\* Decimal.__mul__: coefficients multiply, exponents add (exact at these sizes).
DecMul(a, b) == [coef |-> a.coef * b.coef, exp |-> a.exp + b.exp]

\* Decimal.__add__: the operand with fewer fractional digits is rescaled.
DecAdd(a, b) ==
    LET e == IF a.exp > b.exp THEN a.exp ELSE b.exp
    IN  [coef |-> a.coef * Pow10(e - a.exp) + b.coef * Pow10(e - b.exp), exp |-> e]

\* quantize with ROUND_HALF_UP: a tie goes away from zero.
QuantizeHalfUp(d, places) ==
    IF d.exp <= places
    THEN [coef |-> d.coef * Pow10(places - d.exp), exp |-> places]
    ELSE LET div == Pow10(d.exp - places)
             q == d.coef \div div
             r == d.coef % div
         IN  [coef |-> IF 2 * r >= div THEN q + 1 ELSE q, exp |-> places]

\* Decimal.quantize(Decimal('0.01')) of a non-negative value with no rounding
\* argument: the context's rounding applies, and the default context rounds
\* ROUND_HALF_EVEN (a tie goes to the even neighbour).
Quantize(d, places) ==
    IF d.exp <= places
    THEN [coef |-> d.coef * Pow10(places - d.exp), exp |-> places]
    ELSE LET div == Pow10(d.exp - places)
             q == d.coef \div div
             r == d.coef % div
         IN  [coef |-> IF 2 * r > div THEN q + 1
                       ELSE IF 2 * r = div THEN q + (q % 2)
                       ELSE q,
              exp |-> places]

\* Decimal('0.10')
TaxRate == [coef |-> 10, exp |-> 2]

\* (obj.price + (obj.price * tax_rate)).quantize(Decimal('0.01'))
GetPriceAfterTax(price) == Quantize(DecAdd(price, DecMul(price, TaxRate)), 2)

\* A menu item whose price is c cents is serialized.
SerializeMenuItem(c) ==
    /\ taxPrice' = c
    /\ taxResult' = GetPriceAfterTax([coef |-> c, exp |-> 2]).coef
    /\ UNCHANGED <<cartVars, menuVars, ratingVars, orderVars>>

(***************************************************************************)
(* Dish names: validate_dish of MenuItemSerializer and SingleItemSerializer*)
(***************************************************************************)
\* Names are sequences of characters, so that case folding is computed.
DishNames == {<<"a", "b">>, <<"A", "b">>, <<"A", "B">>, <<"b", "a">>, <<"B", "a">>, <<"a">>}
MaxMenuItems == 2

LowerChar(c) == CASE c = "A" -> "a" [] c = "B" -> "b" [] OTHER -> c
Lower(name) == [i \in DOMAIN name |-> LowerChar(name[i])]

\* name__iexact
IExact(x, y) == Lower(x) = Lower(y)

\* validate_dish without the exclusion of the instance being updated.
ValidateDishNoExclude(rows, instance, value) ==
    ~(\E it \in rows : IExact(it.name, value))

\* MenuItemSerializer.validate_dish: TRUE when the value is returned, FALSE when
\* ValidationError is raised. instance is the pk of self.instance, 0 for None.
ValidateDish(rows, instance, value) ==
    LET qs == {it \in rows : IExact(it.name, value)}
        others == IF instance # 0 THEN {it \in qs : it.id # instance} ELSE qs
    IN  others = {}

\* SingleItemSerializer.validate_dish
SingleItemValidateDish(rows, instance, value) ==
    LET qs == {it \in rows : IExact(it.name, value)}
        others == IF instance # 0 THEN {it \in qs : it.id # instance} ELSE qs
    IN  others = {}

Serializers == {"MenuItemSerializer", "SingleItemSerializer"}

ValidateDishOf(ser, rows, instance, value) ==
    IF ser = "MenuItemSerializer" THEN ValidateDish(rows, instance, value)
    ELSE SingleItemValidateDish(rows, instance, value)

FreeMenuIds == {i \in 1..MaxMenuItems : \A it \in menuItems : it.id # i}

\* A create request through either serializer: validate, then insert.
MenuItemCreate(ser, name) ==
    LET ok == ValidateDishOf(ser, menuItems, 0, name)
    IN  /\ FreeMenuIds # {}
        /\ lastValidation' = [called |-> TRUE, ser |-> ser, instance |-> 0,
                              value |-> name, ok |-> ok, before |-> menuItems]
        /\ menuItems' = IF ok
                        THEN menuItems \cup {[id |-> CHOOSE i \in FreeMenuIds :
                                                        \A j \in FreeMenuIds : i <= j,
                                              name |-> name]}
                        ELSE menuItems
        /\ UNCHANGED <<cartVars, taxVars, ratingVars, orderVars>>

\* An update request through either serializer, on an existing record.
MenuItemUpdate(ser, id, name) ==
    LET ok == ValidateDishOf(ser, menuItems, id, name)
    IN  /\ \E it \in menuItems : it.id = id
        /\ lastValidation' = [called |-> TRUE, ser |-> ser, instance |-> id,
                              value |-> name, ok |-> ok, before |-> menuItems]
        /\ menuItems' = IF ok
                        THEN {IF it.id = id THEN [it EXCEPT !.name = name] ELSE it :
                                 it \in menuItems}
                        ELSE menuItems
        /\ UNCHANGED <<cartVars, taxVars, ratingVars, orderVars>>

(***************************************************************************)
(* Ratings: RatingSerializer                                               *)
(***************************************************************************)
MinScore == 0
MaxScore == 5
ScoreMargin == 1
MaxRatings == 2

\* The scores a request may carry: the ends of the range and what lies just
\* outside it.
ScoreInputs == ((MinScore - ScoreMargin)..MinScore) \cup (MaxScore..(MaxScore + ScoreMargin))

\* Meta.fields
RatingFields == {"id", "menu_item", "score", "comment", "user"}

\* Meta.extra_kwargs: the additional keyword arguments, by field name.
ExtraKwargs == [f \in {"rating"} |-> [min_value |-> MinScore, max_value |-> MaxScore]]

\* The serializer builds one field per name of Meta.fields, with
\* extra_kwargs.get(field_name, {}) merged into its arguments; an entry under a
\* name that is not in Meta.fields reaches no field.
FieldKwargs(f) ==
    IF f \in DOMAIN ExtraKwargs
    THEN [bounded |-> TRUE, min_value |-> ExtraKwargs[f].min_value,
          max_value |-> ExtraKwargs[f].max_value]
    ELSE [bounded |-> FALSE, min_value |-> 0, max_value |-> 0]

\* The score field's validation: its min_value / max_value, when it has them.
ScoreFieldValid(score) ==
    LET kw == FieldKwargs("score")
    IN  kw.bounded => (kw.min_value <= score /\ score <= kw.max_value)

\* user = PrimaryKeyRelatedField(..., default=CurrentUserDefault()): the caller
\* when the request carries no user.
UserFieldValue(caller, hasUser, user) == IF hasUser THEN user ELSE caller

\* A validator that never finds a clash.
UniqueTogetherOff(rows, user, menu_item) == TRUE

\* UniqueTogetherValidator(queryset=Rating.objects.all(), fields=['user', 'menu_item'])
\* on a create (no instance to exclude): TRUE when no row has both values.
UniqueTogether(rows, user, menu_item) ==
    ~(\E r \in rows : r.user = user /\ r.menu_item = menu_item)

\* A rating is submitted by caller: field validation, the serializer's validators,
\* then ModelSerializer.create.
RatingCreate(caller, hasUser, user, menu_item, score) ==
    LET u == UserFieldValue(caller, hasUser, user)
        ok == ScoreFieldValid(score) /\ UniqueTogether(ratings, u, menu_item)
    IN  /\ Cardinality(ratings) < MaxRatings
        /\ hasUser \/ user = caller
        /\ lastRating' = [called |-> TRUE, hasUser |-> hasUser, user |-> u,
                          menu_item |-> menu_item, score |-> score, ok |-> ok,
                          rated |-> \E r \in ratings : r.user = u /\ r.menu_item = menu_item]
        /\ ratings' = IF ok
                      THEN ratings \cup {[id |-> nextRatingId, user |-> u,
                                          menu_item |-> menu_item, score |-> score]}
                      ELSE ratings
        /\ nextRatingId' = IF ok THEN nextRatingId + 1 ELSE nextRatingId
        /\ UNCHANGED <<cartVars, taxVars, menuVars, orderVars>>

(***************************************************************************)
(* Orders: the role-scoped update serializers and the read serializers     *)
(***************************************************************************)
Null == "NULL"
\* Order.status values, and one value that is none of them.
Statuses == {"pending", "delivered"}
StatusInputs == Statuses \cup {"bogus"}
\* Usernames a request may name: the users, and one that does not exist.
CrewInputs == Users \cup {Null, "nobody"}
StoredTotals == {700, 9999}
MaxOrderItems == 1
MaxOrderQuantity == 2

\* Meta.fields of the two update serializers
ManagerFields == {"delivery_crew", "status"}
DeliveryCrewFields == {"status"}

RequestKeys == {"status", "delivery_crew"}
RequestValues(k) == IF k = "status" THEN StatusInputs ELSE CrewInputs
\* Request bodies: any subset of the keys, each with any of its values.
RequestData ==
    UNION {{d \in [ks -> StatusInputs \cup CrewInputs] : \A k \in ks : d[k] \in RequestValues(k)} :
              ks \in SUBSET RequestKeys}

\* The status field accepts the members of the model's enumeration.
StatusValid(v) == v \in Statuses

\* SlugRelatedField(slug_field='username', queryset=User.objects.all(), allow_null=True):
\* null, or the username of an existing user.
CrewValid(v) == v = Null \/ v \in Users

FieldValid(f, v) == IF f = "status" THEN StatusValid(v) ELSE CrewValid(v)

\* The manager serializer with delivery_crew left required.
ManagerRequiredWithCrew(partial, statusRequired) ==
    IF partial THEN {}
    ELSE {"delivery_crew"} \cup (IF statusRequired THEN {"status"} ELSE {})

\* The fields a non-partial request must carry: delivery_crew is declared
\* required=False; whether status is required is the model field's business.
ManagerRequired(partial, statusRequired) ==
    IF partial \/ ~statusRequired THEN {} ELSE {"status"}

DeliveryCrewRequired(partial, statusRequired) ==
    IF partial \/ ~statusRequired THEN {} ELSE {"status"}

\* Serializer.is_valid: each declared field present in the data is validated, a
\* missing required one is an error, and keys that are no declared field are
\* not looked at.
IsValid(fields, required, data) ==
    /\ \A f \in fields \cap DOMAIN data : FieldValid(f, data[f])
    /\ required \subseteq DOMAIN data

ValidatedData(fields, data) == [f \in fields \cap DOMAIN data |-> data[f]]

\* ModelSerializer.update: setattr for each validated attribute, then save.
UpdateInstance(o, validated) ==
    [f \in DOMAIN o |-> IF f \in DOMAIN validated THEN validated[f] ELSE o[f]]

UpdateOrder(role, fields, required, data, partial) ==
    LET ok == IsValid(fields, required, data)
    IN  /\ lastUpdate' = [called |-> TRUE, role |-> role, data |-> data,
                          partial |-> partial, ok |-> ok,
                          before |-> [status |-> order.status,
                                      delivery_crew |-> order.delivery_crew]]
        /\ order' = IF ok THEN UpdateInstance(order, ValidatedData(fields, data)) ELSE order
        /\ UNCHANGED lastView
        /\ UNCHANGED <<cartVars, taxVars, menuVars, ratingVars>>

\* ManagerOrderUpdateSerializer
ManagerUpdate(data, partial, statusRequired) ==
    UpdateOrder("manager", ManagerFields, ManagerRequired(partial, statusRequired),
                data, partial)

\* DeliveryCrewOrderUpdateSerializer
DeliveryCrewUpdate(data, partial, statusRequired) ==
    UpdateOrder("delivery_crew", DeliveryCrewFields,
                DeliveryCrewRequired(partial, statusRequired), data, partial)

\* OrderItem.total_price
TotalPrice(item) == item.unit_price * item.quantity

\* A get_total_price that returns the unit price.
GetTotalPriceUnit(item) == item.unit_price

\* OrderItemReadSerializer.get_total_price
GetTotalPrice(item) == TotalPrice(item)

\* OrderItemReadSerializer: the fields of one item view.
ItemView(item) ==
    [id |-> item.id, menu_item |-> item.menu_item, quantity |-> item.quantity,
     unit_price |-> item.unit_price, total_price |-> GetTotalPrice(item)]

\* OrderReadSerializer.get_delivery_crew
GetDeliveryCrew(o) == IF o.delivery_crew # Null THEN o.delivery_crew ELSE Null

\* OrderReadSerializer: the fields of the order view.
OrderView(o) ==
    [user |-> o.user, delivery_crew |-> GetDeliveryCrew(o), status |-> o.status,
     total |-> o.total, items |-> [i \in DOMAIN o.items |-> ItemView(o.items[i])]]

\* The view of the order is built.
BuildView ==
    /\ lastView' = [built |-> TRUE, view |-> OrderView(order)]
    /\ UNCHANGED <<order, lastUpdate>>
    /\ UNCHANGED <<cartVars, taxVars, menuVars, ratingVars>>

OrderItems == [id : {1}, menu_item : MenuItemIds, quantity : 1..MaxOrderQuantity,
               unit_price : MenuPrices]

\* The orders placed earlier: any owner, status, handler, stored total and items.
OrderInit ==
    /\ order \in [user : Users, status : Statuses, delivery_crew : Users \cup {Null},
                  total : StoredTotals,
                  items : UNION {[1..n -> OrderItems] : n \in 0..MaxOrderItems}]
    /\ lastUpdate = [called |-> FALSE]
    /\ lastView = [built |-> FALSE]

TaxIdle == taxPrice = 0 /\ taxResult = 0
MenuIdle == menuItems = {} /\ lastValidation = [called |-> FALSE]
RatingIdle == ratings = {} /\ nextRatingId = 1 /\ lastRating = [called |-> FALSE]
OrderIdle ==
    /\ order = [user |-> "alice", status |-> "pending", delivery_crew |-> Null,
                total |-> 0, items |-> <<>>]
    /\ lastUpdate = [called |-> FALSE]
    /\ lastView = [built |-> FALSE]

NextCart ==
    \/ \E u \in Users, m \in MenuItemIds, hasQ \in BOOLEAN, q \in Quantities :
          CartCreate(u, m, hasQ, q)
    \/ \E m \in MenuItemIds, p \in MenuPrices : SetMenuPrice(m, p)

InitCart == CartInit /\ TaxIdle /\ MenuIdle /\ RatingIdle /\ OrderIdle

SpecCart == InitCart /\ [][NextCart]_vars

NextCartConc ==
    \/ \E p \in Requests, u \in Users, m \in MenuItemIds, hasQ \in BOOLEAN, q \in Quantities :
          FetchStep(p, u, m, hasQ, q)
    \/ \E p \in Requests : SaveStep(p)

InitCartConc == CartConcInit /\ TaxIdle /\ MenuIdle /\ RatingIdle /\ OrderIdle

SpecCartConc == InitCartConc /\ [][NextCartConc]_vars

NextTax == \E c \in PriceInputs : SerializeMenuItem(c)

InitTax == CartInit /\ menuPrice = [m \in MenuItemIds |-> MinPriceCents]
           /\ TaxIdle /\ MenuIdle /\ RatingIdle /\ OrderIdle

SpecTax == InitTax /\ [][NextTax]_vars

NextMenu ==
    \/ \E ser \in Serializers, name \in DishNames : MenuItemCreate(ser, name)
    \/ \E ser \in Serializers, id \in 1..MaxMenuItems, name \in DishNames :
          MenuItemUpdate(ser, id, name)

InitMenu == CartInit /\ menuPrice = [m \in MenuItemIds |-> MinPriceCents]
            /\ TaxIdle /\ MenuIdle /\ RatingIdle /\ OrderIdle

SpecMenu == InitMenu /\ [][NextMenu]_vars

NextRating ==
    \E caller \in Users, hasUser \in BOOLEAN, user \in Users, m \in MenuItemIds,
       score \in ScoreInputs : RatingCreate(caller, hasUser, user, m, score)

InitRating == CartInit /\ menuPrice = [m \in MenuItemIds |-> MinPriceCents]
              /\ TaxIdle /\ MenuIdle /\ RatingIdle /\ OrderIdle

SpecRating == InitRating /\ [][NextRating]_vars

NextOrderUpdate ==
    \/ \E data \in RequestData, partial \in BOOLEAN, statusRequired \in BOOLEAN :
          ManagerUpdate(data, partial, statusRequired)
    \/ \E data \in RequestData, partial \in BOOLEAN, statusRequired \in BOOLEAN :
          DeliveryCrewUpdate(data, partial, statusRequired)

\* The updates never read the order's total or items: one order per status and handler.
InitOrderUpdate == CartInit /\ menuPrice = [m \in MenuItemIds |-> MinPriceCents]
                   /\ TaxIdle /\ MenuIdle /\ RatingIdle /\ OrderInit
                   /\ order.user = "alice" /\ order.total = 700 /\ order.items = <<>>

SpecOrderUpdate == InitOrderUpdate /\ [][NextOrderUpdate]_vars

NextOrderView == BuildView

InitOrderView == CartInit /\ menuPrice = [m \in MenuItemIds |-> MinPriceCents]
                 /\ TaxIdle /\ MenuIdle /\ RatingIdle /\ OrderInit

SpecOrderView == InitOrderView /\ [][NextOrderView]_vars

\* C1: with the create calls executed one at a time, the store holds at most one
\* CartItem per (user, menu_item) pair: none while nothing was requested for the
\* pair, and otherwise one row whose quantity is the sum of the quantities requested.
C1_OneRowWithSummedQuantity ==
    \A pr \in Pairs :
        LET rows == Matching(cartItems, pr[1], pr[2])
        IN  /\ Cardinality(rows) <= 1
            /\ (requested[pr] = 0) = (rows = {})
            /\ \A r \in rows : r.quantity = requested[pr]

\* add(A, 2) then add(A, 3): one row for the pair, quantity 5.
C1_Witness ==
    /\ numAdds = 2
    /\ \E r \in cartItems : r.quantity = 5 /\ Matching(cartItems, r.user, r.menu_item) = {r}

\* C3: every cart row's unit_price is the menu price captured at the first add
\* for its pair, whatever the menu price became and however many adds followed.
C3_UnitPriceIsFirstSnapshot ==
    \A r \in cartItems : r.unit_price = firstPrice[<<r.user, r.menu_item>>]

\* A later add merged into a row after the menu price had moved away from the
\* row's unit_price.
C3_Witness ==
    \E r \in cartItems :
        /\ staleMerge[<<r.user, r.menu_item>>]
        /\ r.unit_price # menuPrice[r.menu_item]
        /\ r.quantity = requested[<<r.user, r.menu_item>>]

\* C2: once the concurrent requests have all returned, every pair they added to
\* has exactly one row, whose quantity is the quantity stored before the requests
\* plus every quantity requested for the pair.
C2_NoLostIncrement ==
    (\A p \in Requests : pc[p] = "done") =>
        \A pr \in Pairs :
            requested[pr] > 0 =>
                /\ Cardinality(Matching(cartItems, pr[1], pr[2])) = 1
                /\ \A r \in Matching(cartItems, pr[1], pr[2]) :
                       r.quantity = baseQuantity[pr] + requested[pr]

\* C4 as claimed: the price after tax is price * 1.10 rounded to the cent
\* half-up, so that a third decimal digit of 5 always rounds the cent upward.
C4_RoundsHalfUp ==
    taxPrice > 0 => taxResult = (110 * taxPrice + 50) \div 100

\* C4: the price after tax is price * 1.10 rounded to the nearest cent, and a
\* value exactly halfway between two cents goes to the even cent (10.00 gives 11.00).
C4_RoundsHalfEven ==
    taxPrice > 0 =>
        LET exact == 110 * taxPrice
            dist == IF 100 * taxResult >= exact THEN 100 * taxResult - exact
                    ELSE exact - 100 * taxResult
        IN  /\ dist <= 50
            /\ dist = 50 => taxResult % 2 = 0
            /\ taxPrice = 1000 => taxResult = 1100

\* A tie that half-even rounds downward: 2.15 gives 2.3650, returned as 2.36.
C4_Witness ==
    /\ taxPrice = 215
    /\ taxResult = 236
    /\ 100 * taxResult = 110 * taxPrice - 50

\* C5: validate_dish fails exactly when a MenuItem other than the record being
\* updated has the candidate's name up to case; on create every record counts.
C5_FailsExactlyOnOtherRecordsName ==
    lastValidation.called =>
        LET taken == {Lower(it.name) :
                         it \in {x \in lastValidation.before : x.id # lastValidation.instance}}
        IN  lastValidation.ok = (Lower(lastValidation.value) \notin taken)

\* An update re-cased the record's own name, beside another record, and passed.
C5_Witness ==
    /\ lastValidation.called
    /\ lastValidation.instance # 0
    /\ lastValidation.ok
    /\ Cardinality(lastValidation.before) = 2
    /\ \E it \in lastValidation.before :
          /\ it.id = lastValidation.instance
          /\ it.name # lastValidation.value
          /\ Lower(it.name) = Lower(lastValidation.value)

\* C8: a rating whose score is outside [0, 5] is rejected and no Rating with
\* such a score is stored.
C8_ScoreOutsideRangeRejected ==
    /\ (lastRating.called /\ lastRating.score \notin MinScore..MaxScore) => ~lastRating.ok
    /\ \A r \in ratings : r.score \in MinScore..MaxScore

AtMostOneRatingPerPair(rows) ==
    \A r1, r2 \in rows : (r1.user = r2.user /\ r1.menu_item = r2.menu_item) => r1 = r2

\* C9: every submission leaves at most one Rating per (user, menu_item), keeps
\* every stored rating as it was, and is rejected without effect when its user
\* (given, or defaulted to the caller) has already rated the menu item.
C9_OneRatingPerUserAndItem ==
    [][ /\ ratings \subseteq ratings'
        /\ AtMostOneRatingPerPair(ratings')
        /\ (\E r \in ratings : r.user = lastRating'.user /\ r.menu_item = lastRating'.menu_item)
              => (~lastRating'.ok /\ ratings' = ratings) ]_vars

\* A second rating with the user omitted was rejected, the first still stored.
C9_Witness ==
    /\ lastRating.called
    /\ ~lastRating.hasUser
    /\ lastRating.rated
    /\ ~lastRating.ok
    /\ Cardinality({r \in ratings : r.user = lastRating.user
                                     /\ r.menu_item = lastRating.menu_item}) = 1

\* C6: a handler-role update request that carries delivery_crew reports an
\* error and leaves the order's status and delivery_crew as they were.
C6_HandlerCrewFieldRejected ==
    (lastUpdate.called /\ lastUpdate.role = "delivery_crew"
        /\ "delivery_crew" \in DOMAIN lastUpdate.data) =>
        /\ ~lastUpdate.ok
        /\ order.status = lastUpdate.before.status
        /\ order.delivery_crew = lastUpdate.before.delivery_crew

\* C7: a manager-role update request that carries only a status succeeds, sets
\* the order's status to it and leaves delivery_crew as it was.
C7_ManagerStatusOnlyKeepsCrew ==
    (lastUpdate.called /\ lastUpdate.role = "manager"
        /\ DOMAIN lastUpdate.data = {"status"}
        /\ lastUpdate.data["status"] \in Statuses) =>
        /\ lastUpdate.ok
        /\ order.status = lastUpdate.data["status"]
        /\ order.delivery_crew = lastUpdate.before.delivery_crew

\* A full (non-partial) status-only manager request changed the status of an
\* order that keeps its assigned handler.
C7_Witness ==
    /\ lastUpdate.called
    /\ lastUpdate.role = "manager"
    /\ ~lastUpdate.partial
    /\ DOMAIN lastUpdate.data = {"status"}
    /\ lastUpdate.before.status # order.status
    /\ order.status = lastUpdate.data["status"]
    /\ lastUpdate.before.delivery_crew \in Users
    /\ order.delivery_crew = lastUpdate.before.delivery_crew

RECURSIVE SumItemTotals(_)
SumItemTotals(items) ==
    IF items = <<>> THEN 0
    ELSE Head(items).unit_price * Head(items).quantity + SumItemTotals(Tail(items))

\* C10: building the view changes nothing of the order; the view has one item
\* view per item, each with total_price = unit_price * quantity, and the order's
\* total as stored.
C10_ItemTotalsRecomputed ==
    [][ lastView'.built =>
          /\ order' = order
          /\ lastView'.view.total = order.total
          /\ DOMAIN lastView'.view.items = DOMAIN order.items
          /\ \A i \in DOMAIN order.items :
                /\ lastView'.view.items[i].total_price
                      = order.items[i].unit_price * order.items[i].quantity
                /\ lastView'.view.items[i].unit_price = order.items[i].unit_price
                /\ lastView'.view.items[i].quantity = order.items[i].quantity ]_vars

\* A view of an order whose stored total is not the sum of its item totals,
\* with an item of quantity above one.
C10_Witness ==
    /\ lastView.built
    /\ order.items # <<>>
    /\ \E i \in DOMAIN order.items :
          /\ order.items[i].quantity > 1
          /\ lastView.view.items[i].total_price
                = order.items[i].unit_price * order.items[i].quantity
    /\ lastView.view.total # SumItemTotals(order.items)

====
